---- MODULE Spec2Model ----
(***************************************************************************)
(* Model of src/rust/src/road_network.rs: the link-id codec                *)
(* (geoid_string_to_link_id / link_id_to_geoids) and the query operations  *)
(* of HaversineRoadNetwork.                                                *)
(*                                                                         *)
(* Strings are sequences of one-character strings over Alphabet, so that   *)
(* format! and split are computed character by character.  f64 distances   *)
(* and speeds are modelled by naturals (40.0 is 40, 0.0 is 0).             *)
(*                                                                         *)
(* The network holds no mutable state: a behaviour is a series of calls.   *)
(* A call step picks an operation and its inputs, together with the answer *)
(* h3_dist_km gives for the cell pair of that call, and records the value  *)
(* returned; Return hands control back to the caller.                      *)
(***************************************************************************)
EXTENDS Naturals, Sequences, FiniteSets

\* ------------------------------------------------------------------ bounds
MaxCellLen == 2      \* longest GeoidString passed in
MaxLinkLen == 4      \* longest LinkId passed to the codec / link_from_link_id
MaxPosLinkLen == 1   \* longest link_id of an externally supplied EntityPosition
MaxDist == 1         \* largest distance the oracle answers

\* --------------------------------------------------------------- constants
AVG_SPEED_KMPH == 40
DEFAULT_H3_RESOLUTION == 15

Alphabet == {"a", "b", "-"}
SEP == "-"

StrUpTo(n) == UNION {[1..k -> Alphabet] : k \in 0..n}

\* a GeoidString names a cell and is not empty; a LinkId handed in by a
\* caller is any string
Cells == StrUpTo(MaxCellLen) \ {<<>>}
LinkIds == StrUpTo(MaxLinkLen)
PosLinkIds == StrUpTo(MaxPosLinkLen)

\* -------------------------------------------------------------- Result<T>
Ok(v) == [tag |-> "Ok", val |-> v]
Err(e) == [tag |-> "Err", err |-> e]

\* the two failures the module raises, named by the message they carry
MalformedLinkId == "Error converting link id to geoid"
DistanceComputationFailed == "Failure computing h3 distance"

\* ---------------------------------------------------------- string helpers
HasSep(s) == \E i \in 1..Len(s) : s[i] = SEP
FirstSep(s) == CHOOSE i \in 1..Len(s) : s[i] = SEP /\ \A j \in 1..(i-1) : s[j] # SEP
CountSep(s) == Cardinality({i \in 1..Len(s) : s[i] = SEP})

\* str::split("-"): the pieces between separators, empty pieces included;
\* a string with n separators yields n+1 pieces.
RECURSIVE split(_)
split(s) ==
  IF ~HasSep(s) THEN <<s>>
  ELSE LET i == FirstSep(s)
       IN <<SubSeq(s, 1, i - 1)>> \o split(SubSeq(s, i + 1, Len(s)))

\* ------------------------------------------------------------------ codec
\* mutant: the two cells written in the wrong order
geoid_string_to_link_id_swapped(origin, destination) ==
  destination \o <<SEP>> \o origin

geoid_string_to_link_id(origin, destination) == origin \o <<SEP>> \o destination

\* mutant: only too few pieces are rejected, extra pieces are ignored
link_id_to_geoids_lenient(link_id) ==
  LET ids == split(link_id)
  IN IF Len(ids) < 2
       THEN Err("LinkId not in expected format of [Geoid]-[Geoid]")
       ELSE Ok(<<ids[1], ids[2]>>)

\* mutant: an empty piece is rejected as well
link_id_to_geoids_nonempty(link_id) ==
  LET ids == split(link_id)
  IN IF Len(ids) # 2 \/ ids[1] = <<>> \/ ids[2] = <<>>
       THEN Err("LinkId not in expected format of [Geoid]-[Geoid]")
       ELSE Ok(<<ids[1], ids[2]>>)

link_id_to_geoids(link_id) ==
  LET ids == split(link_id)
  IN IF Len(ids) # 2
       THEN Err("LinkId not in expected format of [Geoid]-[Geoid]")
       ELSE Ok(<<ids[1], ids[2]>>)

\* ----------------------------------------------------------------- oracle
\* utils::h3_dist_km: the answers the distance collaborator can give for a
\* pair of cells: a failure (the only answer when a string names no cell
\* because it is empty), or a distance that is 0 for a cell and itself.
h3_dist_km(a, b) ==
  IF a = <<>> \/ b = <<>> THEN {Err("h3")}
  ELSE {Err("h3")} \cup (IF a = b THEN {Ok(0)} ELSE {Ok(d) : d \in 0..MaxDist})

\* the answers h3_dist_km can give when the pair asked about is not known
AnyH3Answer == {Err("h3")} \cup {Ok(d) : d \in 0..MaxDist}

\* ------------------------------------------------------------ data records
LinkTraversal(link_id, start, end, distance_km, speed_kmph) ==
  [link_id |-> link_id, start |-> start, end |-> end,
   distance_km |-> distance_km, speed_kmph |-> speed_kmph]

EntityPosition(link_id, geoid) == [link_id |-> link_id, geoid |-> geoid]

\* EntityPosition's == : the record's fields compared one by one
PositionEq(p, q) == p.link_id = q.link_id /\ p.geoid = q.geoid

\* ---------------------------------------------------------- road network
None == [some |-> FALSE]
Some(v) == [some |-> TRUE, val |-> v]

new(res) == IF res.some THEN res.val ELSE DEFAULT_H3_RESOLUTION

\* each operation yields the value returned and whether h3_dist_km was called;
\* h3 is the answer h3_dist_km gives for the cell pair of the call.
Outcome(r, c) == [res |-> r, consulted |-> c]

\* mutant: start and end of the traversal exchanged
route_swapped_ends(origin, destination, h3) ==
  IF PositionEq(origin, destination)
    THEN Outcome(Ok(<<>>), FALSE)
    ELSE LET link_id == geoid_string_to_link_id(origin.geoid, destination.geoid)
         IN IF h3.tag = "Err"
              THEN Outcome(Err(DistanceComputationFailed), TRUE)
              ELSE Outcome(Ok(<<LinkTraversal(link_id, destination.geoid, origin.geoid,
                                               h3.val, AVG_SPEED_KMPH)>>), TRUE)

route(origin, destination, h3) ==
  IF PositionEq(origin, destination)
    THEN Outcome(Ok(<<>>), FALSE)
    ELSE LET link_id == geoid_string_to_link_id(origin.geoid, destination.geoid)
         IN IF h3.tag = "Err"
              THEN Outcome(Err(DistanceComputationFailed), TRUE)
              ELSE Outcome(Ok(<<LinkTraversal(link_id, origin.geoid, destination.geoid,
                                               h3.val, AVG_SPEED_KMPH)>>), TRUE)

\* mutant: a failed distance computation is defaulted to zero
distance_by_geoid_km_default_zero(origin, destination, h3) ==
  IF h3.tag = "Err"
    THEN Outcome(Ok(0), TRUE)
    ELSE Outcome(Ok(h3.val), TRUE)

distance_by_geoid_km(origin, destination, h3) ==
  IF h3.tag = "Err"
    THEN Outcome(Err(DistanceComputationFailed), TRUE)
    ELSE Outcome(Ok(h3.val), TRUE)

\* mutant: the traversal is given the re-encoded, reversed link id
link_from_link_id_reversed(link_id, h3) ==
  LET dec == link_id_to_geoids(link_id)
  IN IF dec.tag = "Err"
       THEN Outcome(Err(MalformedLinkId), FALSE)
       ELSE LET source == dec.val[1]
                dest == dec.val[2]
                d == distance_by_geoid_km(source, dest, h3)
            IN IF d.res.tag = "Err"
                 THEN d
                 ELSE Outcome(Ok(LinkTraversal(geoid_string_to_link_id(dest, source),
                                               source, dest,
                                               d.res.val, AVG_SPEED_KMPH)), TRUE)

link_from_link_id(link_id, h3) ==
  LET dec == link_id_to_geoids(link_id)
  IN IF dec.tag = "Err"
       THEN Outcome(Err(MalformedLinkId), FALSE)
       ELSE LET source == dec.val[1]
                dest == dec.val[2]
                d == distance_by_geoid_km(source, dest, h3)
            IN IF d.res.tag = "Err"
                 THEN d
                 ELSE Outcome(Ok(LinkTraversal(link_id, source, dest,
                                               d.res.val, AVG_SPEED_KMPH)), TRUE)

link_from_geoid(geoid) ==
  LET link_id == geoid_string_to_link_id(geoid, geoid)
  IN LinkTraversal(link_id, geoid, geoid, 0, 0)

\* mutant: the position is given the bare geoid as its link id
position_from_geoid_bare(geoid) == EntityPosition(geoid, geoid)

position_from_geoid(geoid) ==
  LET link == link_from_geoid(geoid)
  IN EntityPosition(link.link_id, geoid)

geoid_within_geofence(geoid) == TRUE

\* positions a caller can hold: built by the network, or supplied externally
Positions ==
  {position_from_geoid(c) : c \in Cells}
    \cup {EntityPosition(l, c) : l \in PosLinkIds, c \in Cells}

\* ------------------------------------------------------------------ state
VARIABLES sim_h3_resolution, pc, op, args, h3, ret, consulted

vars == <<sim_h3_resolution, pc, op, args, h3, ret, consulted>>

NoAnswer == [tag |-> "Unused"]

Init ==
  /\ sim_h3_resolution \in {new(None), new(Some(9))}
  /\ pc = "idle"
  /\ op = "none"
  /\ args = <<>>
  /\ h3 = NoAnswer
  /\ ret = NoAnswer
  /\ consulted = FALSE

Call(name, a, answer, out) ==
  /\ pc' = "returned"
  /\ op' = name
  /\ args' = a
  /\ h3' = answer
  /\ ret' = out.res
  /\ consulted' = out.consulted
  /\ UNCHANGED sim_h3_resolution

Encode ==
  /\ pc = "idle"
  /\ \E a \in Cells, b \in Cells :
       Call("encode", <<a, b>>, NoAnswer,
            Outcome(geoid_string_to_link_id(a, b), FALSE))

Decode ==
  /\ pc = "idle"
  /\ \E s \in LinkIds :
       Call("decode", <<s>>, NoAnswer, Outcome(link_id_to_geoids(s), FALSE))

Route ==
  /\ pc = "idle"
  /\ \E origin \in Positions, destination \in Positions :
       \E answer \in h3_dist_km(origin.geoid, destination.geoid) :
         Call("route", <<origin, destination>>, answer,
              route(origin, destination, answer))

DistanceByGeoidKm ==
  /\ pc = "idle"
  /\ \E a \in Cells, b \in Cells :
       \E answer \in h3_dist_km(a, b) :
         Call("distance_by_geoid_km", <<a, b>>, answer,
              distance_by_geoid_km(a, b, answer))

LinkFromLinkId ==
  /\ pc = "idle"
  /\ \E link_id \in LinkIds :
       LET dec == link_id_to_geoids(link_id)
       IN \E answer \in (IF dec.tag = "Ok" THEN h3_dist_km(dec.val[1], dec.val[2])
                                           ELSE AnyH3Answer) :
            Call("link_from_link_id", <<link_id>>, answer,
                 link_from_link_id(link_id, answer))

LinkFromGeoid ==
  /\ pc = "idle"
  /\ \E c \in Cells :
       Call("link_from_geoid", <<c>>, NoAnswer, Outcome(link_from_geoid(c), FALSE))

PositionFromGeoid ==
  /\ pc = "idle"
  /\ \E c \in Cells :
       Call("position_from_geoid", <<c>>, NoAnswer,
            Outcome(position_from_geoid(c), FALSE))

GeoidWithinGeofence ==
  /\ pc = "idle"
  /\ \E c \in Cells :
       Call("geoid_within_geofence", <<c>>, NoAnswer,
            Outcome(geoid_within_geofence(c), FALSE))

Return ==
  /\ pc = "returned"
  /\ pc' = "idle"
  /\ op' = "none"
  /\ args' = <<>>
  /\ h3' = NoAnswer
  /\ ret' = NoAnswer
  /\ consulted' = FALSE
  /\ UNCHANGED sim_h3_resolution

Next ==
  \/ Encode
  \/ Decode
  \/ DistanceByGeoidKm
  \/ LinkFromLinkId
  \/ LinkFromGeoid
  \/ PositionFromGeoid
  \/ GeoidWithinGeofence
  \/ Route
  \/ Return

Spec == Init /\ [][Next]_vars


\* ============================================================= properties
Returned(name) == pc = "returned" /\ op = name

\* the position is the one position_from_geoid builds for its geoid
IsPosOf(p) == p = position_from_geoid(p.geoid)

\* the LinkTraversal values handed back by the call that just returned
ReturnedTraversals ==
  IF Returned("route") /\ ret.tag = "Ok" THEN {ret.val[i] : i \in 1..Len(ret.val)}
  ELSE IF Returned("link_from_link_id") /\ ret.tag = "Ok" THEN {ret.val}
  ELSE IF Returned("link_from_geoid") THEN {ret}
  ELSE {}

\* C1: route between two positions with the same geoid, whatever their
\* link ids, returns the empty sequence and does not call the distance oracle.
C1_RouteSameGeoidEmpty ==
  (Returned("route") /\ args[1].geoid = args[2].geoid)
    => (ret.tag = "Ok" /\ ret.val = <<>> /\ ~consulted)

\* C2: decode succeeds only when the input has exactly one separator that
\* leaves a non-empty piece on each side; every other input is rejected.
C2_DecodeTwoNonEmptyParts ==
  Returned("decode")
    => (ret.tag = "Ok"
          <=> /\ CountSep(args[1]) = 1
              /\ args[1][1] # SEP
              /\ args[1][Len(args[1])] # SEP)

\* C3: every returned LinkTraversal has distance 0 and speed 0 exactly when
\* its start equals its end.
C3_ZeroIffSelfLink ==
  \A t \in ReturnedTraversals :
    (t.distance_km = 0 /\ t.speed_kmph = 0) <=> (t.start = t.end)

\* C4: for non-empty cells a, b without the separator, decoding encode(a, b)
\* succeeds and gives back (a, b) in that order.
C4_RoundTrip ==
  (Returned("encode")
     /\ args[1] # <<>> /\ ~HasSep(args[1])
     /\ args[2] # <<>> /\ ~HasSep(args[2]))
    => LET dec == link_id_to_geoids(ret)
       IN dec.tag = "Ok" /\ dec.val[1] = args[1] /\ dec.val[2] = args[2]

C4_Witness ==
  /\ Returned("encode")
  /\ args = << <<"a", "b">>, <<"b">> >>
  /\ ret = <<"a", "b", "-", "b">>

\* C5: route never returns more than one element, and for the positions of
\* two distinct cells a, b on which the oracle succeeds it returns exactly the
\* traversal encode(a, b), a, b, oracle distance, speed 40.
C5_RouteSingleHop ==
  Returned("route")
    => /\ ret.tag = "Ok" => Len(ret.val) <= 1
       /\ (/\ IsPosOf(args[1]) /\ IsPosOf(args[2])
           /\ args[1].geoid # args[2].geoid
           /\ h3.tag = "Ok")
            => /\ ret.tag = "Ok"
               /\ Len(ret.val) = 1
               /\ ret.val[1].link_id
                    = geoid_string_to_link_id(args[1].geoid, args[2].geoid)
               /\ ret.val[1].start = args[1].geoid
               /\ ret.val[1].end = args[2].geoid
               /\ ret.val[1].distance_km = h3.val
               /\ ret.val[1].speed_kmph = 40

C5_Witness ==
  /\ Returned("route")
  /\ args[1] = position_from_geoid(<<"a">>)
  /\ args[2] = position_from_geoid(<<"b", "a">>)
  /\ h3 = Ok(MaxDist)
  /\ ret.tag = "Ok"
  /\ Len(ret.val) = 1

\* the link id is encode(a, b) for some cells a, b (drawn from cells that
\* satisfy the given restriction)
EncodesPair(link_id, noSep) ==
  \E a \in Cells, b \in Cells :
    /\ link_id = geoid_string_to_link_id(a, b)
    /\ noSep => (~HasSep(a) /\ ~HasSep(b))

\* C6 as stated: when the oracle fails for (a, b), distance_by_geoid_km(a, b),
\* route(pos(a), pos(b)) and link_from_link_id(encode(a, b)) each fail with
\* DistanceComputationFailed.
C6_FailurePropagates ==
  h3.tag = "Err"
    => /\ Returned("distance_by_geoid_km")
            => ret = Err(DistanceComputationFailed)
       /\ (Returned("route") /\ IsPosOf(args[1]) /\ IsPosOf(args[2]))
            => ret = Err(DistanceComputationFailed)
       /\ (Returned("link_from_link_id") /\ EncodesPair(args[1], FALSE))
            => ret = Err(DistanceComputationFailed)

\* C6 amended: when the oracle fails for (a, b), distance_by_geoid_km(a, b)
\* fails with DistanceComputationFailed; so does route(pos(a), pos(b)) when
\* a # b, and link_from_link_id(encode(a, b)) when neither cell contains the
\* separator; link_from_link_id(encode(a, b)) fails for every a, b.
C6_FailurePropagatesAmended ==
  h3.tag = "Err"
    => /\ Returned("distance_by_geoid_km")
            => ret = Err(DistanceComputationFailed)
       /\ (/\ Returned("route") /\ IsPosOf(args[1]) /\ IsPosOf(args[2])
           /\ args[1].geoid # args[2].geoid)
            => ret = Err(DistanceComputationFailed)
       /\ (Returned("link_from_link_id") /\ EncodesPair(args[1], TRUE))
            => ret = Err(DistanceComputationFailed)
       /\ (Returned("link_from_link_id") /\ EncodesPair(args[1], FALSE))
            => ret.tag = "Err"

C6_Witness ==
  /\ Returned("link_from_link_id")
  /\ args[1] = <<"a", "-", "b">>
  /\ h3.tag = "Err"
  /\ consulted
  /\ ret = Err(DistanceComputationFailed)

\* C7: every returned LinkTraversal has link_id = encode(start, end), and the
\* one link_from_link_id returns carries the caller's input string unchanged.
C7_LinkIdConsistent ==
  /\ \A t \in ReturnedTraversals :
       t.link_id = geoid_string_to_link_id(t.start, t.end)
  /\ (Returned("link_from_link_id") /\ ret.tag = "Ok")
       => ret.val.link_id = args[1]

C7_Witness ==
  /\ Returned("link_from_link_id")
  /\ args[1] = <<"a", "b", "-", "b">>
  /\ ret.tag = "Ok"
  /\ ret.val.start = <<"a", "b">>
  /\ ret.val.end = <<"b">>

\* C8 as stated: for every cell c, position_from_geoid(c) has geoid c and
\* link_id = encode(c, c) = link_from_geoid(c).link_id, and that link_id
\* decodes to (c, c).
C8_PositionLinkDecodes ==
  Returned("position_from_geoid")
    => /\ ret.geoid = args[1]
       /\ ret.link_id = geoid_string_to_link_id(args[1], args[1])
       /\ ret.link_id = link_from_geoid(args[1]).link_id
       /\ link_id_to_geoids(ret.link_id) = Ok(<<args[1], args[1]>>)

\* C8 amended: for every cell c, position_from_geoid(c) has geoid c and
\* link_id = encode(c, c) = link_from_geoid(c).link_id; that link_id decodes
\* to (c, c) when c does not contain the separator, and is rejected otherwise.
C8_PositionLinkDecodesAmended ==
  Returned("position_from_geoid")
    => /\ ret.geoid = args[1]
       /\ ret.link_id = geoid_string_to_link_id(args[1], args[1])
       /\ ret.link_id = link_from_geoid(args[1]).link_id
       /\ ~HasSep(args[1])
            => link_id_to_geoids(ret.link_id) = Ok(<<args[1], args[1]>>)
       /\ HasSep(args[1]) => link_id_to_geoids(ret.link_id).tag = "Err"

C8_Witness ==
  /\ Returned("position_from_geoid")
  /\ args[1] = <<"a", "b">>
  /\ ret = EntityPosition(<<"a", "b", "-", "a", "b">>, <<"a", "b">>)

\* C9: link_from_link_id on a string with no separator, or with two or more,
\* fails with MalformedLinkId and the oracle is not called, whatever the
\* oracle would have answered.
C9_MalformedRejected ==
  (Returned("link_from_link_id") /\ CountSep(args[1]) # 1)
    => (ret = Err(MalformedLinkId) /\ ~consulted)

C9_Witness ==
  /\ Returned("link_from_link_id")
  /\ args[1] = <<"a", "-", "b", "-">>
  /\ h3.tag = "Ok"
  /\ ret = Err(MalformedLinkId)

\* C10: decode succeeds exactly on the strings with exactly one separator,
\* re-encoding a decoded pair gives back the string, and encode(a, b) is
\* decodable exactly when neither a nor b contains the separator.
C10_ReverseRoundTrip ==
  /\ Returned("decode")
       => /\ ret.tag = "Ok" <=> CountSep(args[1]) = 1
          /\ ret.tag = "Ok"
               => geoid_string_to_link_id(ret.val[1], ret.val[2]) = args[1]
  /\ Returned("encode")
       => (link_id_to_geoids(ret).tag = "Ok"
             <=> (~HasSep(args[1]) /\ ~HasSep(args[2])))

C10_Witness ==
  /\ Returned("decode")
  /\ args[1] = <<"-", "a">>
  /\ ret = Ok(<< <<>>, <<"a">> >>)
====
